---------------------------- MODULE Spec2Model ----------------------------
(***************************************************************************)
(* A model of embed_file.py: the identifier derivation                     *)
(* _convert_to_var_name and the header generator run().                    *)
(*                                                                         *)
(* Text is modelled as a sequence of one-character strings, so a file      *)
(* name, the generated header and the stale content of an output file are  *)
(* all values of Seq(STRING) whose elements have length one.               *)
(***************************************************************************)
EXTENDS Integers, Sequences, FiniteSets, TLC

VARIABLES
    \* ---- _convert_to_var_name, run as a loop of its own (SpecName) ----
    file_name,      \* path.name: the base name of the input path
    idx,            \* number of characters of file_name the for loop has consumed
    var_name,       \* the local var_name (of _convert_to_var_name, and of run)
    next_upper,     \* the local next_upper
    flag_before,    \* history: next_upper before the character consumed last
    npc,            \* position in _convert_to_var_name: "idle", "loop", "returned"
    \* ---- the filesystem ----
    inKind,         \* what the input path denotes: "absent", "dir", "file"
    inBytes,        \* the bytes of the input file
    grandExists,    \* whether the parent of the output path's parent exists
    parentKind,     \* the output path's parent: "absent", "dir", "file"
    outKind,        \* the output path: "absent", "file"
    outFile,        \* the text of the output file
    \* ---- run() ----
    pc,             \* position in run()
    input_size,     \* the local input_size
    byte_num,       \* the local byte_num
    fpos,           \* read position of fin
    stderr,         \* what the process wrote to standard error
    exit,           \* {the process's exit status}, NoExit while it runs
    \* ---- invocations ----
    runs,           \* number of invocations started
    startFs,        \* history: the output side of the filesystem when this run began
    prevOut         \* history: the output file as the previous run left it

nameVars == <<idx, next_upper, flag_before, npc>>
fsVars == <<inKind, inBytes, grandExists, parentKind, outKind, outFile>>
runVars == <<pc, input_size, byte_num, fpos, stderr, exit>>
histVars == <<runs, startFs, prevOut>>
vars == <<file_name, var_name, nameVars, fsVars, runVars, histVars>>

(***************************************************************************)
(* Bounds of the model.                                                    *)
(***************************************************************************)
MaxNameLen == 3
MaxLen == 25
MaxRuns == 2

(***************************************************************************)
(* Program constants.                                                      *)
(***************************************************************************)
col_width == 10
tab_width == 4

\* exit holds the status the process ended with, and nothing while it runs.
NoExit == {}

(***************************************************************************)
(* Characters.                                                             *)
(***************************************************************************)
LowerSeq == <<"a", "b", "c", "d", "e", "f", "g", "h", "i", "j", "k", "l", "m",
              "n", "o", "p", "q", "r", "s", "t", "u", "v", "w", "x", "y", "z">>
UpperSeq == <<"A", "B", "C", "D", "E", "F", "G", "H", "I", "J", "K", "L", "M",
              "N", "O", "P", "Q", "R", "S", "T", "U", "V", "W", "X", "Y", "Z">>
HexDigits == <<"0", "1", "2", "3", "4", "5", "6", "7", "8", "9",
               "a", "b", "c", "d", "e", "f">>
DecDigits == <<"0", "1", "2", "3", "4", "5", "6", "7", "8", "9">>

Range(s) == {s[i] : i \in 1..Len(s)}

lower_ascii == Range(LowerSeq)
upper_ascii == Range(UpperSeq)

\* str.upper() on one ASCII lowercase letter
ToUpper(char) == UpperSeq[CHOOSE i \in 1..26 : LowerSeq[i] = char]

(***************************************************************************)
(* _convert_to_var_name                                                    *)
(***************************************************************************)

\* Mutant: a character that is neither a letter nor '_' also sets next_upper.
StepChar_OtherSetsFlag(vn, nu, char) ==
    IF char = "_" THEN [var_name |-> vn, next_upper |-> TRUE]
    ELSE IF char \in lower_ascii
         THEN [var_name |-> Append(vn, IF nu THEN ToUpper(char) ELSE char),
               next_upper |-> FALSE]
    ELSE IF char \in upper_ascii
         THEN [var_name |-> Append(vn, char), next_upper |-> FALSE]
    ELSE [var_name |-> Append(vn, "_"), next_upper |-> TRUE]

\* Mutant: '_' is replaced by '_' one for one instead of being dropped.
StepChar_UnderscoreEmits(vn, nu, char) ==
    IF char = "_" THEN [var_name |-> Append(vn, "_"), next_upper |-> TRUE]
    ELSE IF char \in lower_ascii
         THEN [var_name |-> Append(vn, IF nu THEN ToUpper(char) ELSE char),
               next_upper |-> FALSE]
    ELSE IF char \in upper_ascii
         THEN [var_name |-> Append(vn, char), next_upper |-> FALSE]
    ELSE [var_name |-> Append(vn, "_"), next_upper |-> nu]

\* Mutant: a character that is neither a letter nor '_' is copied unchanged.
StepChar_OtherCopied(vn, nu, char) ==
    IF char = "_" THEN [var_name |-> vn, next_upper |-> TRUE]
    ELSE IF char \in lower_ascii
         THEN [var_name |-> Append(vn, IF nu THEN ToUpper(char) ELSE char),
               next_upper |-> FALSE]
    ELSE IF char \in upper_ascii
         THEN [var_name |-> Append(vn, char), next_upper |-> FALSE]
    ELSE [var_name |-> Append(vn, char), next_upper |-> nu]

\* The body of the for loop: var_name and next_upper after one character.
StepChar(vn, nu, char) ==
    IF char = "_" THEN [var_name |-> vn, next_upper |-> TRUE]
    ELSE IF char \in lower_ascii
         THEN [var_name |-> Append(vn, IF nu THEN ToUpper(char) ELSE char),
               next_upper |-> FALSE]
    ELSE IF char \in upper_ascii
         THEN [var_name |-> Append(vn, char), next_upper |-> FALSE]
    ELSE [var_name |-> Append(vn, "_"), next_upper |-> nu]

RECURSIVE ConvertFrom(_, _, _, _)
ConvertFrom(name, i, vn, nu) ==
    IF i > Len(name) THEN vn
    ELSE LET r == StepChar(vn, nu, name[i])
         IN  ConvertFrom(name, i + 1, r.var_name, r.next_upper)

\* The whole function, as run() calls it.
ConvertToVarName(name) == ConvertFrom(name, 1, <<>>, TRUE)

(***************************************************************************)
(* File names the model draws from.                                        *)
(***************************************************************************)
EmbedIconsBin == <<"e", "m", "b", "e", "d", "_", "i", "c", "o", "n", "s", ".",
                   "b", "i", "n">>
MyFileDAT == <<"M", "y", "-", "F", "i", "l", "e", ".", "D", "A", "T">>

NameChars == {"_", "a", "z", "B", "7", ".", "-"}

Names == {EmbedIconsBin, MyFileDAT}
         \cup UNION {[1..n -> NameChars] : n \in 1..MaxNameLen}

RunNames == {EmbedIconsBin, <<"a", "_", "7", ".", "h">>}

(***************************************************************************)
(* Input contents the model draws from: byte i (0-based) of a file is      *)
(* (start + i * step) % 256, for each length 0..MaxLen.                    *)
(***************************************************************************)
MakeBytes(start, step, n) == [i \in 1..n |-> (start + (i - 1) * step) % 256]

Patterns == {<<0, 1>>, <<171, 17>>}

Contents == {MakeBytes(p[1], p[2], n) : p \in Patterns, n \in 0..MaxLen}

StaleText == <<"s", "t", "a", "l", "e", "\n">>

(***************************************************************************)
(* The text run() writes.                                                  *)
(***************************************************************************)
PragmaText == <<"#", "p", "r", "a", "g", "m", "a", " ", "o", "n", "c", "e", "\n">>

IncludeText == <<"#", "i", "n", "c", "l", "u", "d", "e", " ", "<", "a", "r", "r",
                 "a", "y", ">", "\n",
                 "#", "i", "n", "c", "l", "u", "d", "e", " ", "<", "c", "s", "t",
                 "d", "i", "n", "t", ">", "\n", "\n">>

DeclHead == <<"c", "o", "n", "s", "t", "e", "x", "p", "r", " ", "s", "t", "d", ":",
              ":", "a", "r", "r", "a", "y", "<", "u", "i", "n", "t", "8", "_", "t",
              ",", " ">>

\* ' ' * tab_width
tab_str == [i \in 1..tab_width |-> " "]

\* '{}'.format(n) for a non-negative integer
RECURSIVE Decimal(_)
Decimal(n) ==
    IF n < 10 THEN <<DecDigits[n + 1]>>
    ELSE Append(Decimal(n \div 10), DecDigits[(n % 10) + 1])

\* f'constexpr std::array<uint8_t, {input_size}> k{var_name} = {{\n{tab_str}'
DeclText(size, vn) ==
    DeclHead \o Decimal(size) \o <<">", " ", "k">> \o vn
             \o <<" ", "=", " ", "{", "\n">> \o tab_str

\* Mutant: '0x{:x}', the literal without zero padding.
HexByte_NoPad(b) ==
    IF b < 16 THEN <<"0", "x", HexDigits[b + 1]>>
    ELSE <<"0", "x", HexDigits[(b \div 16) + 1], HexDigits[(b % 16) + 1]>>

\* '0x{:02x}'.format(byte[0])
HexByte(b) == <<"0", "x", HexDigits[(b \div 16) + 1], HexDigits[(b % 16) + 1]>>

\* Mutant: the wrap writes the newline without the indent.
ByteText_NoIndent(num, size, b) ==
    IF num % col_width = 0 THEN HexByte(b) \o <<",", "\n">>
    ELSE IF num = size THEN HexByte(b) \o <<"\n">>
    ELSE HexByte(b) \o <<",", " ">>

\* What one pass of the while loop writes for byte number num (1-based).
ByteText(num, size, b) ==
    IF num % col_width = 0 THEN HexByte(b) \o <<",", "\n">> \o tab_str
    ELSE IF num = size THEN HexByte(b) \o <<"\n">>
    ELSE HexByte(b) \o <<",", " ">>

\* Mutant: the closing line is written after a line break of its own.
FooterText_OwnLine == <<"\n", "}", ";", "\n">>

\* '};\n'
FooterText == <<"}", ";", "\n">>

(***************************************************************************)
(* Filesystem and process primitives.                                      *)
(***************************************************************************)

\* input_file.exists() and input_file.is_file()
ValidInput(kind) == kind = "file"

\* Mutant: mkdir() without exist_ok, which raises on an existing directory.
MkdirParent_NoExistOk(grand, parent) ==
    IF parent = "absent"
    THEN IF grand THEN [raised |-> FALSE, parent |-> "dir"]
         ELSE [raised |-> TRUE, parent |-> parent]
    ELSE [raised |-> TRUE, parent |-> parent]

\* output_file.parent.mkdir(exist_ok=True): parents is left False, so a
\* missing ancestor raises FileNotFoundError; an existing path that is not
\* a directory raises FileExistsError.
MkdirParent(grand, parent) ==
    IF parent = "absent"
    THEN IF grand THEN [raised |-> FALSE, parent |-> "dir"]
         ELSE [raised |-> TRUE, parent |-> parent]
    ELSE IF parent = "dir" THEN [raised |-> FALSE, parent |-> parent]
    ELSE [raised |-> TRUE, parent |-> parent]

\* Mutant: mode 'a', which keeps what the file held.
OpenForWrite_Append(old) == old

\* open(output_file, mode='w'): the file is created or truncated.
OpenForWrite(old) == <<>>

\* What run() returns: <<>> stands for None, <<n>> for the integer n.
ReturnNone == <<>>
ReturnInt(n) == <<n>>

\* sys.exit(run()): None is status 0, an integer is itself.
SysExit(ret) == IF ret = ReturnNone THEN 0 ELSE ret[1]

\* An unhandled exception ends the interpreter with status 1.
UnhandledExit == SysExit(ReturnInt(1))

OutSide == [grand |-> grandExists, parent |-> parentKind,
            kind |-> outKind, text |-> outFile]

(***************************************************************************)
(* _convert_to_var_name as a loop of its own.                              *)
(***************************************************************************)
IdleRun ==
    /\ inKind = "absent" /\ inBytes = <<>>
    /\ grandExists = TRUE /\ parentKind = "dir"
    /\ outKind = "absent" /\ outFile = <<>>
    /\ pc = "idle" /\ input_size = 0 /\ byte_num = 0 /\ fpos = 0
    /\ stderr = "" /\ exit = NoExit
    /\ runs = 0
    /\ startFs = OutSide
    /\ prevOut = <<>>

InitName ==
    /\ file_name \in Names
    /\ idx = 0
    /\ var_name = <<>>
    /\ next_upper = TRUE
    /\ flag_before = TRUE
    /\ npc = "loop"
    /\ IdleRun

\* for char in file_name: one pass of the loop body
ForChar ==
    /\ npc = "loop"
    /\ idx < Len(file_name)
    /\ LET r == StepChar(var_name, next_upper, file_name[idx + 1])
       IN  /\ var_name' = r.var_name
           /\ next_upper' = r.next_upper
    /\ flag_before' = next_upper
    /\ idx' = idx + 1
    /\ UNCHANGED <<file_name, npc, fsVars, runVars, histVars>>

\* return var_name
ReturnVarName ==
    /\ npc = "loop"
    /\ idx = Len(file_name)
    /\ npc' = "returned"
    /\ UNCHANGED <<file_name, var_name, idx, next_upper, flag_before,
                   fsVars, runVars, histVars>>

NextName == ForChar \/ ReturnVarName

SpecName == InitName /\ [][NextName]_vars

(***************************************************************************)
(* run()                                                                   *)
(***************************************************************************)
IdleName ==
    /\ idx = 0 /\ next_upper = TRUE /\ flag_before = TRUE /\ npc = "idle"

\* The output side of the filesystem before the first run: a file lies in
\* an existing directory, a directory in an existing directory.
OutSides ==
    {[grand |-> FALSE, parent |-> "absent", kind |-> "absent", text |-> <<>>],
     [grand |-> TRUE, parent |-> "absent", kind |-> "absent", text |-> <<>>],
     [grand |-> TRUE, parent |-> "file", kind |-> "absent", text |-> <<>>],
     [grand |-> TRUE, parent |-> "dir", kind |-> "absent", text |-> <<>>],
     [grand |-> TRUE, parent |-> "dir", kind |-> "file", text |-> StaleText]}

Init ==
    /\ file_name \in RunNames
    /\ var_name = <<>>
    /\ IdleName
    /\ inKind \in {"absent", "dir", "file"}
    /\ inBytes \in (IF inKind = "file" THEN Contents ELSE {<<>>})
    /\ \E o \in OutSides :
          /\ grandExists = o.grand
          /\ parentKind = o.parent
          /\ outKind = o.kind
          /\ outFile = o.text
          /\ startFs = o
    /\ pc = "validate"
    /\ input_size = 0 /\ byte_num = 0 /\ fpos = 0
    /\ stderr = "" /\ exit = NoExit
    /\ runs = 1
    /\ prevOut = <<>>

\* Mutant: the parent directory is made before the input is validated.
ValidateFail_MkdirFirst ==
    /\ pc = "validate"
    /\ ~ValidInput(inKind)
    /\ parentKind' = MkdirParent(grandExists, parentKind).parent
    /\ stderr' = "not a valid input file"
    /\ exit' = {SysExit(ReturnInt(1))}
    /\ pc' = "done"
    /\ UNCHANGED <<file_name, var_name, nameVars, inKind, inBytes, grandExists,
                   outKind, outFile, input_size, byte_num, fpos, histVars>>

\* if not input_file.exists() or not input_file.is_file(): print(...); return 1
ValidateFail ==
    /\ pc = "validate"
    /\ ~ValidInput(inKind)
    /\ stderr' = "not a valid input file"
    /\ exit' = {SysExit(ReturnInt(1))}
    /\ pc' = "done"
    /\ UNCHANGED <<file_name, var_name, nameVars, fsVars,
                   input_size, byte_num, fpos, histVars>>

ValidateOk ==
    /\ pc = "validate"
    /\ ValidInput(inKind)
    /\ pc' = "mkdir"
    /\ UNCHANGED <<file_name, var_name, nameVars, fsVars,
                   input_size, byte_num, fpos, stderr, exit, histVars>>

\* output_file.parent.mkdir(exist_ok=True), returning
MkdirOk ==
    /\ pc = "mkdir"
    /\ ~MkdirParent(grandExists, parentKind).raised
    /\ parentKind' = MkdirParent(grandExists, parentKind).parent
    /\ pc' = "stat"
    /\ UNCHANGED <<file_name, var_name, nameVars, inKind, inBytes, grandExists,
                   outKind, outFile, input_size, byte_num, fpos, stderr, exit,
                   histVars>>

\* output_file.parent.mkdir(exist_ok=True), raising: nothing catches it
MkdirRaise ==
    /\ pc = "mkdir"
    /\ MkdirParent(grandExists, parentKind).raised
    /\ stderr' = "traceback"
    /\ exit' = {UnhandledExit}
    /\ pc' = "raised"
    /\ UNCHANGED <<file_name, var_name, nameVars, fsVars,
                   input_size, byte_num, fpos, histVars>>

\* input_size = input_file.stat().st_size
\* var_name = _convert_to_var_name(input_file)
StatAndName ==
    /\ pc = "stat"
    /\ input_size' = Len(inBytes)
    /\ var_name' = ConvertToVarName(file_name)
    /\ pc' = "open"
    /\ UNCHANGED <<file_name, nameVars, fsVars, byte_num, fpos, stderr, exit,
                   histVars>>

\* with open(input_file, mode='rb') as fin, open(output_file, mode='w') as fout:
\*     byte_num = 0
OpenFiles ==
    /\ pc = "open"
    /\ fpos' = 0
    /\ outKind' = "file"
    /\ outFile' = OpenForWrite(outFile)
    /\ byte_num' = 0
    /\ pc' = "header"
    /\ UNCHANGED <<file_name, var_name, nameVars, inKind, inBytes, grandExists,
                   parentKind, input_size, stderr, exit, histVars>>

\* the three fout.write calls before the loop
WriteHeader ==
    /\ pc = "header"
    /\ outFile' = outFile \o PragmaText \o IncludeText
                          \o DeclText(input_size, var_name)
    /\ pc' = "loop"
    /\ UNCHANGED <<file_name, var_name, nameVars, inKind, inBytes, grandExists,
                   parentKind, outKind, input_size, byte_num, fpos, stderr, exit,
                   histVars>>

\* while (byte := fin.read(1)): one pass, fin.read(1) having returned a byte
WriteByte ==
    /\ pc = "loop"
    /\ fpos < Len(inBytes)
    /\ fpos' = fpos + 1
    /\ byte_num' = byte_num + 1
    /\ outFile' = outFile \o ByteText(byte_num + 1, input_size, inBytes[fpos + 1])
    /\ UNCHANGED <<file_name, var_name, nameVars, inKind, inBytes, grandExists,
                   parentKind, outKind, pc, input_size, stderr, exit, histVars>>

\* fin.read(1) returns b'' at the end of the file: the loop ends
EndOfInput ==
    /\ pc = "loop"
    /\ fpos = Len(inBytes)
    /\ pc' = "footer"
    /\ UNCHANGED <<file_name, var_name, nameVars, fsVars,
                   input_size, byte_num, fpos, stderr, exit, histVars>>

\* fout.write('};\n'); both files close; run() returns None
WriteFooter ==
    /\ pc = "footer"
    /\ outFile' = outFile \o FooterText
    /\ exit' = {SysExit(ReturnNone)}
    /\ pc' = "done"
    /\ UNCHANGED <<file_name, var_name, nameVars, inKind, inBytes, grandExists,
                   parentKind, outKind, input_size, byte_num, fpos, stderr,
                   histVars>>

\* The tool is invoked again with the same two arguments.
RunAgain ==
    /\ pc \in {"done", "raised"}
    /\ runs < MaxRuns
    /\ runs' = runs + 1
    /\ startFs' = OutSide
    /\ prevOut' = outFile
    /\ var_name' = <<>>
    /\ pc' = "validate"
    /\ input_size' = 0 /\ byte_num' = 0 /\ fpos' = 0
    /\ stderr' = "" /\ exit' = NoExit
    /\ UNCHANGED <<file_name, nameVars, fsVars>>

Next ==
    \/ ValidateFail \/ ValidateOk
    \/ MkdirOk \/ MkdirRaise
    \/ StatAndName
    \/ OpenFiles
    \/ WriteHeader
    \/ WriteByte \/ EndOfInput
    \/ WriteFooter
    \/ RunAgain

Spec == Init /\ [][Next]_vars

\* A started process keeps running: every step of run() is taken once it is
\* enabled. Nothing obliges anyone to invoke the tool again.
Step == Next /\ pc \notin {"done", "raised"}

FairSpec == Spec /\ WF_vars(Step)

(***************************************************************************)
(* Reading a generated header back: the operators below take the text      *)
(* apart again, independently of the operators that built it.              *)
(***************************************************************************)
Min(S) == CHOOSE m \in S : \A n \in S : m <= n
Max(S) == CHOOSE m \in S : \A n \in S : n <= m

RECURSIVE Sorted(_)
Sorted(S) == IF S = {} THEN <<>> ELSE <<Min(S)>> \o Sorted(S \ {Min(S)})

Positions(s, c) == {i \in 1..Len(s) : s[i] = c}
FirstIndex(s, c) == IF Positions(s, c) = {} THEN 0 ELSE Min(Positions(s, c))
LastIndex(s, c) == IF Positions(s, c) = {} THEN 0 ELSE Max(Positions(s, c))

HasPrefix(s, p) == Len(s) >= Len(p) /\ SubSeq(s, 1, Len(p)) = p
HasSuffix(s, p) == Len(s) >= Len(p) /\ SubSeq(s, Len(s) - Len(p) + 1, Len(s)) = p

Prologue == PragmaText \o IncludeText
AfterPrologue(out) == SubSeq(out, Len(Prologue) + 1, Len(out))

DecValue(c) == (CHOOSE i \in 1..10 : DecDigits[i] = c) - 1
HexValue(c) == (CHOOSE i \in 1..16 : HexDigits[i] = c) - 1

\* The number a string of decimal digits denotes, -1 if it is not one.
RECURSIVE ParseDecimal(_)
ParseDecimal(ds) ==
    IF ds = <<>> \/ ~(Range(ds) \subseteq Range(DecDigits)) THEN -1
    ELSE IF Len(ds) = 1 THEN DecValue(ds[1])
    ELSE 10 * ParseDecimal(SubSeq(ds, 1, Len(ds) - 1)) + DecValue(ds[Len(ds)])

\* The array size the declaration states: the digits between
\* "std::array<uint8_t, " and the next ">".
DeclaredSize(out) ==
    LET decl == AfterPrologue(out)
        rest == SubSeq(decl, Len(DeclHead) + 1, Len(decl))
    IN  IF HasPrefix(decl, DeclHead) /\ FirstIndex(rest, ">") > 0
        THEN ParseDecimal(SubSeq(rest, 1, FirstIndex(rest, ">") - 1))
        ELSE -1

\* The text between the opening brace and the closing brace.
Body(out) == SubSeq(out, FirstIndex(out, "{") + 1, LastIndex(out, "}") - 1)

Separators == {",", " ", "\n"}

TokenStarts(s) ==
    {i \in 1..Len(s) : s[i] \notin Separators /\ (i = 1 \/ s[i - 1] \in Separators)}
TokenEnds(s) ==
    {i \in 1..Len(s) : s[i] \notin Separators
                       /\ (i = Len(s) \/ s[i + 1] \in Separators)}

\* The maximal runs of non-separator characters of s, in order.
Tokens(s) ==
    LET st == Sorted(TokenStarts(s))
        en == Sorted(TokenEnds(s))
    IN  [k \in 1..Len(st) |-> SubSeq(s, st[k], en[k])]

\* What follows each token of s, up to the next token or the end of s.
Followers(s) ==
    LET st == Sorted(TokenStarts(s))
        en == Sorted(TokenEnds(s))
    IN  [k \in 1..Len(st) |->
            SubSeq(s, en[k] + 1, IF k < Len(st) THEN st[k + 1] - 1 ELSE Len(s))]

\* The value of a literal 0x followed by exactly two lowercase hex digits,
\* -1 for any other token.
LiteralValue(tok) ==
    IF /\ Len(tok) = 4
       /\ tok[1] = "0" /\ tok[2] = "x"
       /\ tok[3] \in Range(HexDigits) /\ tok[4] \in Range(HexDigits)
    THEN 16 * HexValue(tok[3]) + HexValue(tok[4])
    ELSE -1

Literals(out) ==
    LET toks == Tokens(Body(out))
    IN  [k \in 1..Len(toks) |-> LiteralValue(toks[k])]

\* The lines of s: every newline-terminated piece, and what follows the
\* last newline if that is not empty.
Lines(s) ==
    LET nl == Sorted(Positions(s, "\n"))
        from(k) == IF k = 1 THEN 1 ELSE nl[k - 1] + 1
        ended == {SubSeq(s, from(k), nl[k] - 1) : k \in 1..Len(nl)}
        tail == SubSeq(s, from(Len(nl) + 1), Len(s))
    IN  ended \cup (IF tail = <<>> THEN {} ELSE {tail})

\* The body's lines: the text after the line break that ends the
\* declaration line, up to the closing brace.
BodyLines(out) ==
    Lines(SubSeq(out, FirstIndex(out, "{") + 2, LastIndex(out, "}") - 1))

Succeeded == pc = "done" /\ exit = {0}

Count(s, c) == Cardinality(Positions(s, c))

(***************************************************************************)
(* Properties.                                                             *)
(***************************************************************************)

\* C1: a successful run on an input of N >= 1 bytes leaves a header whose
\* declaration reads std::array<uint8_t, N> and whose body holds exactly N
\* literals, the i-th being 0x and the two lowercase hex digits of byte i.
C1_SizeAndLiterals ==
    (Succeeded /\ Len(inBytes) >= 1) =>
        /\ HasPrefix(outFile, Prologue)
        /\ DeclaredSize(outFile) = Len(inBytes)
        /\ Literals(outFile) = inBytes

C1_Witness ==
    /\ Succeeded
    /\ Len(inBytes) > col_width
    /\ \E i \in 1..Len(inBytes) : inBytes[i] < 16
    /\ \E i \in 1..Len(inBytes) : inBytes[i] > 160

\* C2: with an input path that is missing or not a regular file, the run
\* ends with status 1 and a message on standard error, and at no point of
\* that run has the output file, its parent directory or any ancestor been
\* created or changed.
C2_InvalidInputTouchesNothing ==
    ~ValidInput(inKind) =>
        /\ pc \in {"validate", "done"}
        /\ OutSide = startFs
        /\ pc = "done" => (exit = {1} /\ stderr = "not a valid input file")

C2_Witness ==
    /\ pc = "done"
    /\ inKind = "dir"
    /\ exit = {1}
    /\ startFs.parent = "absent" /\ startFs.grand

\* C3 as stated: embed_icons.bin gives EmbedIcons_Bin and My-File.DAT
\* gives MyFile_DAT.
C3_AsStated ==
    npc = "returned" =>
        /\ file_name = EmbedIconsBin =>
              var_name = <<"E", "m", "b", "e", "d", "I", "c", "o", "n", "s", "_",
                           "B", "i", "n">>
        /\ file_name = MyFileDAT =>
              var_name = <<"M", "y", "F", "i", "l", "e", "_", "D", "A", "T">>

\* C3, amended: embed_icons.bin gives EmbedIcons_bin and My-File.DAT gives
\* My_File_DAT.
C3_Examples ==
    npc = "returned" =>
        /\ file_name = EmbedIconsBin =>
              var_name = <<"E", "m", "b", "e", "d", "I", "c", "o", "n", "s", "_",
                           "b", "i", "n">>
        /\ file_name = MyFileDAT =>
              var_name = <<"M", "y", "_", "F", "i", "l", "e", "_", "D", "A", "T">>

C3_Witness == npc = "returned" /\ file_name = EmbedIconsBin

\* C4: after a successful run on N >= 1 bytes, the last literal is followed
\* by a bare newline, and the closing brace comes directly after it.
C4_LastLiteralBareNewline ==
    (Succeeded /\ Len(inBytes) >= 1) =>
        LET f == Followers(Body(outFile))
        IN  Len(f) >= 1 /\ f[Len(f)] = <<"\n">>

\* C5 as stated: for an empty input the text after the pragma and include
\* lines is the declaration, a newline, four spaces, a second newline and
\* the closing brace with its semicolon.
C5_AsStated ==
    (Succeeded /\ inBytes = <<>>) =>
        LET claimed == DeclHead \o <<"0", ">", " ", "k">> \o var_name
                       \o <<" ", "=", " ", "{", "\n", " ", " ", " ", " ", "\n",
                            "}", ";">>
        IN  AfterPrologue(outFile) \in {claimed, claimed \o <<"\n">>}

\* C5, amended: for an empty input the text after the pragma and include
\* lines is the declaration, a newline, four spaces, and directly the
\* closing brace with its semicolon and a final newline: no line break
\* stands between the indent and the closing brace.
C5_EmptyInput ==
    (Succeeded /\ inBytes = <<>>) =>
        /\ HasPrefix(outFile, Prologue)
        /\ AfterPrologue(outFile) =
              DeclHead \o <<"0", ">", " ", "k">> \o var_name
              \o <<" ", "=", " ", "{", "\n", " ", " ", " ", " ", "}", ";", "\n">>

C5_Witness == Succeeded /\ inBytes = <<>> /\ inKind = "file" /\ outKind = "file"

\* C6: in a finished header, every literal whose number b is a multiple of
\* 10 is followed by a comma, a newline and four spaces, every other
\* literal with b < N by a comma and one space; every line of the body
\* holds at most 10 literals and starts with four spaces.
C6_Wrapping ==
    Succeeded =>
        LET f == Followers(Body(outFile))
        IN  /\ Len(f) = Len(inBytes)
            /\ \A b \in 1..Len(f) :
                  /\ b % 10 = 0 => f[b] = <<",", "\n", " ", " ", " ", " ">>
                  /\ (b % 10 # 0 /\ b < Len(f)) => f[b] = <<",", " ">>
            /\ \A line \in BodyLines(outFile) :
                  /\ HasPrefix(line, <<" ", " ", " ", " ">>)
                  /\ Len(Tokens(line)) <= 10

C6_Witness == Succeeded /\ Len(inBytes) > 2 * col_width

\* The parent directory of the output path can be used or made: it is a
\* directory already, or it is absent and its own parent exists.
ParentUsable ==
    \/ startFs.parent = "dir"
    \/ startFs.parent = "absent" /\ startFs.grand

Complete(out) ==
    /\ HasPrefix(out, Prologue \o DeclHead)
    /\ HasSuffix(out, <<"}", ";", "\n">>)
    /\ Len(Tokens(Body(out))) = Len(inBytes)

C7_ParentMade ==
    ValidInput(inKind) =>
        /\ grandExists = startFs.grand
        /\ pc \in {"stat", "open", "header", "loop", "footer", "done"}
              => parentKind = "dir"
        /\ ParentUsable => pc # "raised"
        /\ (startFs.parent = "absent" /\ ~startFs.grand)
              => (parentKind = "absent" /\ outKind = "absent")
        /\ (ParentUsable /\ pc = "done")
              => (exit = {0} /\ outKind = "file" /\ Complete(outFile))

\* C7: with a valid input, the output path's parent is a directory from
\* the moment mkdir returns, so before the output file is opened: an absent
\* parent whose own parent exists is created, an existing directory is no
\* error, no ancestor is ever created; and in both cases the run goes on to
\* end with status 0 and the complete header written.
C7_ParentThenOutput ==
    /\ []C7_ParentMade
    /\ (ValidInput(inKind) /\ ParentUsable /\ pc = "validate")
          ~> (pc = "done" /\ exit = {0} /\ Complete(outFile))

C7_Witness ==
    /\ Succeeded
    /\ startFs.parent = "absent"
    /\ parentKind = "dir"
    /\ Complete(outFile)

\* C8: a second successful run with the same arguments and the same input
\* leaves the output file exactly as the run before it left it, and a
\* successful run's output starts with the pragma line whatever the file
\* held before.
C8_Idempotent ==
    Succeeded =>
        /\ HasPrefix(outFile, Prologue)
        /\ runs >= 2 => outFile = prevOut

C8_Witness ==
    /\ Succeeded
    /\ runs = 2
    /\ prevOut # <<>>
    /\ Len(inBytes) > col_width
    /\ outFile = prevOut

\* C9 as stated: the result has as many characters as the file name.
C9_AsStated == npc = "returned" => Len(var_name) = Len(file_name)

\* C9, amended: the result has as many characters as the file name has
\* characters other than '_': an underscore of the name yields nothing,
\* every other character yields exactly one character.
C9_Length ==
    /\ npc \in {"loop", "returned"} =>
          Len(var_name) = idx - Count(SubSeq(file_name, 1, idx), "_")
    /\ npc = "returned" =>
          /\ idx = Len(file_name)
          /\ Len(var_name) = Len(file_name) - Count(file_name, "_")

C9_Witness ==
    /\ npc = "returned"
    /\ Count(file_name, "_") = 1
    /\ Len(var_name) = Len(file_name) - 1

Letters == lower_ascii \cup upper_ascii

\* One pass of the loop, seen from outside: what it read and what it did.
C10_Pass ==
    LET char == file_name[idx + 1]
    IN  /\ (~next_upper /\ next_upper') => char = "_"
        /\ (next_upper /\ ~next_upper') => char \in Letters
        /\ char \in Range(DecDigits) => var_name' = Append(var_name, "_")
        /\ ( /\ char \in lower_ascii
             /\ idx >= 1
             /\ file_name[idx] \notin Letters \cup {"_"}
             /\ var_name' = Append(var_name, ToUpper(char)) )
           => flag_before

\* C10: the result holds only ASCII letters and underscores, never a digit
\* (a digit of the name becomes an underscore), so it cannot start with a
\* digit; next_upper is set only by an underscore of the name and cleared
\* only by a letter, so a lowercase letter after a non-letter is upper-cased
\* only if next_upper was set before that non-letter.
C10_LettersAndFlag ==
    [][ idx' = idx + 1 =>
          /\ C10_Pass
          /\ Range(var_name') \subseteq Letters \cup {"_"}
          /\ Range(var_name') \cap Range(DecDigits) = {} ]_vars

C10_Witness ==
    /\ npc = "returned"
    /\ file_name = <<"_", "7", "a">>
    /\ var_name = <<"_", "A">>

=============================================================================
